---- MODULE Spec2Model ----
(***************************************************************************)
(* A model of openstack_dashboard/api/management.py: the wrapper layer     *)
(* over the dummy ORM models (Capacity, Host, Rack, ResourceClass, Flavor, *)
(* ResourceClassFlavor).  The store `db` holds the rows; `wrap` holds the  *)
(* ResourceClass wrapper instances a view keeps during a request, each     *)
(* with its row snapshot (_apiresource) and its memoized properties        *)
(* (__dict__); `ret` is what the last call was given and what it returned. *)
(***************************************************************************)
EXTENDS Integers, Sequences, FiniteSets, TLC

VARIABLES db, wrap, ow, ret, procs

vars == <<db, wrap, ow, ret, procs>>

(***************************************************************************)
(* Bounds of the model.                                                    *)
(***************************************************************************)
\* highest Rack primary key handed out
MaxRack == 3
\* highest Flavor primary key handed out
MaxFlavor == 2
\* highest ResourceClassFlavor primary key handed out
MaxRcf == 3
\* highest Capacity primary key handed out
MaxCap == 12
\* highest ResourceClass primary key handed out
MaxRc == 3
\* most capacities attached one by one to the objects of one kind
MaxOwnedCaps == 3
\* most relationship properties a view reads on one wrapper
MaxReads == 2
\* longest id list given to set_resources / set_flavors
MaxList == 2

(***************************************************************************)
(* Python values.                                                          *)
(***************************************************************************)
\* None, and a value that is not None: a nullable field holds <<>> or <<v>>
Null == <<>>
Some(v) == <<v>>

Digit == <<"0", "1", "2", "3", "4", "5", "6", "7", "8", "9">>

\* str(n) / unicode(n) of a non-negative integer: its decimal digits
RECURSIVE Str(_)
Str(n) == IF n < 10 THEN Digit[n + 1]
          ELSE Str(n \div 10) \o Digit[(n % 10) + 1]

\* the primary keys a table of this model can hold, and some beyond them
PkRange == 1..(MaxRack + MaxFlavor + MaxRcf + MaxCap)

\* django turns the string given as id=... into the integer it spells;
\* <<>> when no primary key of the range is spelled that way
ParsePk(s) == LET hit == {n \in PkRange : Str(n) = s}
              IN  IF hit = {} THEN Null ELSE Some(CHOOSE n \in hit : TRUE)

RECURSIVE SortedSeq(_)
\* the elements of a finite set of integers in ascending order
SortedSeq(S) == IF S = {} THEN <<>>
                ELSE LET m == CHOOSE x \in S : \A y \in S : x <= y
                     IN  <<m>> \o SortedSeq(S \ {m})

Range(s) == {s[i] : i \in DOMAIN s}

\* [f(x) for x in s]
Map(s, F(_)) == [i \in DOMAIN s |-> F(s[i])]

RECURSIVE SumOver(_, _)
\* the sum of f[x] over the finite set S
SumOver(f, S) == IF S = {} THEN 0
                 ELSE LET x == CHOOSE y \in S : TRUE
                      IN  f[x] + SumOver(f, S \ {x})

(***************************************************************************)
(* The ORM: tables are functions from primary key to row; a model instance *)
(* (what a wrapper keeps as _apiresource) is a primary key with the field  *)
(* values read at the time it was loaded.                                  *)
(***************************************************************************)
Instance(table, pk) == [id |-> pk, row |-> table[pk]]

\* objects.all(): every row of the table, in primary key order
All(table) == Map(SortedSeq(DOMAIN table), LAMBDA pk : Instance(table, pk))

\* a filtered queryset: the rows satisfying P, in primary key order
Filter(table, P(_, _)) ==
    Map(SortedSeq({pk \in DOMAIN table : P(pk, table[pk])}),
        LAMBDA pk : Instance(table, pk))

\* instance.save(): UPDATE the row with this primary key, INSERT it if absent
Save(table, inst) == (inst.id :> inst.row) @@ table

\* the table without the rows whose keys are in pks
Without(table, pks) == [pk \in DOMAIN table \ pks |-> table[pk]]

\* rack.resource_class: the related row, None when the foreign key is null
RackResourceClass(d, rackRow) ==
    IF rackRow.resource_class_id = Null THEN Null
    ELSE Some(Instance(d.rc, rackRow.resource_class_id[1]))

\* resource_class.rack_set.all()
RackSet(d, rcPk) ==
    Filter(d.rack, LAMBDA pk, row : row.resource_class_id = Some(rcPk))

\* resource_class.resourceclassflavor_set.all()
ResourceClassFlavorSet(d, rcPk) ==
    Filter(d.rcf, LAMBDA pk, row : row.resource_class_id = rcPk)

\* rack.host_set.all()
HostSet(d, rackPk) == Filter(d.host, LAMBDA pk, row : row.rack_id = Some(rackPk))

\* owner.capacities.all(): the generic relation of a host, rack or flavor
CapacitiesOf(d, kind, pk) ==
    Filter(d.cap, LAMBDA k, row : row.content_type = kind /\ row.object_id = pk)

\* Model.delete() with the ORM's default cascade: the rows that refer to a
\* deleted row through a foreign key or a generic relation go with it
DeleteRacks(d, pks) ==
    LET hosts == {h \in DOMAIN d.host : d.host[h].rack_id # Null
                                        /\ d.host[h].rack_id[1] \in pks}
        caps  == {c \in DOMAIN d.cap :
                    \/ d.cap[c].content_type = "rack" /\ d.cap[c].object_id \in pks
                    \/ d.cap[c].content_type = "host" /\ d.cap[c].object_id \in hosts}
    IN  [d EXCEPT !.rack = Without(d.rack, pks),
                  !.host = Without(d.host, hosts),
                  !.cap  = Without(d.cap, caps)]

DeleteFlavorRow(d, pk) ==
    LET rcfs == {r \in DOMAIN d.rcf : d.rcf[r].flavor_id = pk}
        caps == {c \in DOMAIN d.cap : d.cap[c].content_type = "flavor"
                                      /\ d.cap[c].object_id = pk}
    IN  [d EXCEPT !.flavor = Without(d.flavor, {pk}),
                  !.rcf    = Without(d.rcf, rcfs),
                  !.cap    = Without(d.cap, caps)]

(***************************************************************************)
(* What a call gives back: the store it leaves and the value it returns,   *)
(* or the store it leaves and the exception that ended it.                 *)
(***************************************************************************)
Return(d, v) == [ok |-> TRUE, db |-> d, val |-> v]
Raise(d, e) == [ok |-> FALSE, db |-> d, val |-> e]

\* Model.objects.get(id=...): the instance, or DoesNotExist
ObjectsGet(d, table, idStr) ==
    LET pk == ParsePk(idStr)
    IN  IF pk # Null /\ pk[1] \in DOMAIN table
        THEN Return(d, Instance(table, pk[1]))
        ELSE Raise(d, "DoesNotExist")

\* the database refuses a resource_class_id that names no ResourceClass row
ForeignKeyHolds(d, rcRef) == rcRef = Null \/ rcRef[1] \in DOMAIN d.rc

\* a resource_class_id argument (None or an id string) as the stored column
RcColumn(rcArg) == IF rcArg = Null THEN Null ELSE ParsePk(rcArg[1])

(***************************************************************************)
(* StringIdAPIResourceWrapper and the wrapper classes.                     *)
(***************************************************************************)
\* wrapper.id
WrapperId(inst) == Str(inst.id)

\* the memoized properties of a ResourceClass wrapper (keys of __dict__)
Props == {"resources", "all_resources", "resource_class_flavors", "flavors",
          "all_flavors", "hosts", "racks", "total_cpu",
          "running_virtual_machines"}

NoMemo == [p \in Props |-> Null]

\* ResourceClass(rc): a new wrapper; set_request is what get() adds
NewWrapper(inst, withRequest) ==
    [id |-> inst.id, row |-> inst.row, hasRequest |-> withRequest, memo |-> NoMemo]

\* ---- Capacity ----
CapacityCreate(d, kind, pk, name, value, unit) ==
    LET c == [id |-> d.seq.cap,
              row |-> [content_type |-> kind, object_id |-> pk, name |-> name,
                       value |-> value, unit |-> unit]]
    IN  Return([d EXCEPT !.cap = Save(d.cap, c), !.seq.cap = @ + 1], c)

CapacityUpdateMutant(d, capId, kind, pk, name, value, unit) ==
    CapacityCreate(d, kind, pk, name, value, unit)

CapacityUpdate(d, capId, kind, pk, name, value, unit) ==
    LET got == ObjectsGet(d, d.cap, capId)
        c   == [id |-> got.val.id,
                row |-> [content_type |-> kind, object_id |-> pk, name |-> name,
                         value |-> value, unit |-> unit]]
    IN  IF ~got.ok THEN got
        ELSE Return([d EXCEPT !.cap = Save(d.cap, c)], c)

\* ---- Rack ----
RackCreate(d, name, rcArg, location, subnet) ==
    LET rack == [id |-> d.seq.rack,
                 row |-> [name |-> name, resource_class_id |-> RcColumn(rcArg),
                          location |-> location, subnet |-> subnet]]
    IN  IF ~ForeignKeyHolds(d, rack.row.resource_class_id)
        THEN Raise(d, "IntegrityError")
        ELSE Return([d EXCEPT !.rack = Save(d.rack, rack), !.seq.rack = @ + 1],
                    Null)

RackMutantList(d, onlyFreeRacks) ==
    IF onlyFreeRacks
    THEN Filter(d.rack, LAMBDA pk, row : row.resource_class_id # Null)
    ELSE All(d.rack)

RackList(d, onlyFreeRacks) ==
    IF onlyFreeRacks
    THEN Filter(d.rack, LAMBDA pk, row : RackResourceClass(d, row) = Null)
    ELSE All(d.rack)

RackGet(d, rackId) == ObjectsGet(d, d.rack, rackId)

RackDelete(d, rackId) ==
    LET got == ObjectsGet(d, d.rack, rackId)
    IN  IF ~got.ok THEN got ELSE Return(DeleteRacks(d, {got.val.id}), Null)

RackUpdate(d, rackId, name, location, subnet, rcArg) ==
    LET got  == ObjectsGet(d, d.rack, rackId)
        rack == [id |-> got.val.id,
                 row |-> [name |-> name, resource_class_id |-> RcColumn(rcArg),
                          location |-> location, subnet |-> subnet]]
    IN  IF ~got.ok THEN got
        ELSE IF ~ForeignKeyHolds(d, rack.row.resource_class_id)
        THEN Raise(d, "IntegrityError")
        ELSE Return([d EXCEPT !.rack = Save(d.rack, rack)], rack)

\* ---- ResourceClass class methods ----
ResourceClassGet(d, rcId) ==
    LET got == ObjectsGet(d, d.rc, rcId)
    IN  IF ~got.ok THEN got ELSE Return(d, NewWrapper(got.val, TRUE))

ResourceClassCreate(d, name, serviceType) ==
    LET rc == [id |-> d.seq.rc,
               row |-> [name |-> name, service_type |-> serviceType]]
    IN  Return([d EXCEPT !.rc = Save(d.rc, rc), !.seq.rc = @ + 1],
               NewWrapper(rc, FALSE))

ResourceClassList(d) == Map(All(d.rc), LAMBDA inst : NewWrapper(inst, FALSE))

ResourceClassUpdate(d, rcId, name, serviceType) ==
    LET got == ObjectsGet(d, d.rc, rcId)
        rc  == [id |-> got.val.id,
                row |-> [name |-> name, service_type |-> serviceType]]
    IN  IF ~got.ok THEN got
        ELSE Return([d EXCEPT !.rc = Save(d.rc, rc)], NewWrapper(rc, FALSE))

\* ResourceClass.delete looks the id up among the Flavor rows
ResourceClassDelete(d, flavorId) ==
    LET got == ObjectsGet(d, d.flavor, flavorId)
    IN  IF ~got.ok THEN got ELSE Return(DeleteFlavorRow(d, got.val.id), Null)

\* ---- Flavor ----
FlavorList(d) == All(d.flavor)

FlavorGet(d, flavorId) == ObjectsGet(d, d.flavor, flavorId)

FlavorCapacityNames == <<"vcpu", "ram", "root_disk", "ephemeral_disk", "swap_disk">>
FlavorCapacityUnits == <<"", "MB", "GB", "GB", "MB">>

RECURSIVE FlavorCapacities(_, _, _, _)
\* the Capacity.create calls of Flavor.create, from the i-th on
FlavorCapacities(d, pk, values, i) ==
    IF i > Len(FlavorCapacityNames) THEN d
    ELSE FlavorCapacities(
             CapacityCreate(d, "flavor", pk, FlavorCapacityNames[i], values[i],
                            FlavorCapacityUnits[i]).db,
             pk, values, i + 1)

FlavorCreate(d, name, values) ==
    LET flavor == [id |-> d.seq.flavor, row |-> [name |-> name]]
        saved  == [d EXCEPT !.flavor = Save(d.flavor, flavor), !.seq.flavor = @ + 1]
    IN  Return(FlavorCapacities(saved, flavor.id, values, 1), Null)

FlavorDelete(d, flavorId) ==
    LET got == ObjectsGet(d, d.flavor, flavorId)
    IN  IF ~got.ok THEN got ELSE Return(DeleteFlavorRow(d, got.val.id), Null)

\* ---- ResourceClassFlavor ----
ResourceClassFlavorCreate(d, rcInst, flavorInst, maxVms) ==
    LET r == [id |-> d.seq.rcf,
              row |-> [max_vms |-> maxVms, resource_class_id |-> rcInst.id,
                       flavor_id |-> flavorInst.id]]
    IN  Return([d EXCEPT !.rcf = Save(d.rcf, r), !.seq.rcf = @ + 1], r)

ResourceClassFlavorDelete(d, rcId, flavorId) ==
    LET rc   == ParsePk(rcId)
        fl   == ParsePk(flavorId)
        hits == {r \in DOMAIN d.rcf : /\ rc # Null /\ fl # Null
                                      /\ d.rcf[r].resource_class_id = rc[1]
                                      /\ d.rcf[r].flavor_id = fl[1]}
    IN  Return([d EXCEPT !.rcf = Without(d.rcf, hits)], Null)

(***************************************************************************)
(* ResourceClass properties.  A property read gives the wrapper back with  *)
(* what the read left in its __dict__, and the value or the exception.     *)
(***************************************************************************)
Got(w, v) == [ok |-> TRUE, w |-> w, val |-> v]
Failed(w, e) == [ok |-> FALSE, w |-> w, val |-> e]

IsMemoizedMutant(w, p) == FALSE

\* "_p" in self.__dict__
IsMemoized(w, p) == w.memo[p] # Null

\* self._p = v ; return self.__dict__['_p']
Memoize(w, p, v) == Got([w EXCEPT !.memo[p] = Some(v)], v)

\* ResourceClass.resources: [Rack(r) for r in rack_set.all()], memoized
Resources(d, w) ==
    IF IsMemoized(w, "resources") THEN Got(w, w.memo["resources"][1])
    ELSE Memoize(w, "resources", RackSet(d, w.id))

\* ResourceClass.resources_ids
ResourcesIds(d, w) ==
    LET r == Resources(d, w)
    IN  Got(r.w, Map(r.val, WrapperId))

\* ResourceClass.racks: the same query, memoized under its own key
Racks(d, w) ==
    IF IsMemoized(w, "racks") THEN Got(w, w.memo["racks"][1])
    ELSE Memoize(w, "racks", RackSet(d, w.id))

\* ResourceClass.all_resources: Rack.list(self.request) needs the request
AllResources(d, w) ==
    IF IsMemoized(w, "all_resources") THEN Got(w, w.memo["all_resources"][1])
    ELSE IF ~w.hasRequest THEN Failed(w, "AttributeError")
    ELSE Memoize(w, "all_resources",
                 SelectSeq(RackList(d, FALSE),
                           LAMBDA r : \/ r.row.resource_class_id = Null
                                      \/ r.row.resource_class_id = Some(w.id)))

\* ResourceClassFlavor(r): the join row and its not yet loaded flavor
RcfWrapper(inst) == [id |-> inst.id, row |-> inst.row, flavor |-> Null]

\* ResourceClass.resource_class_flavors
ResourceClassFlavors(d, w) ==
    IF IsMemoized(w, "resource_class_flavors")
    THEN Got(w, w.memo["resource_class_flavors"][1])
    ELSE Memoize(w, "resource_class_flavors",
                 Map(ResourceClassFlavorSet(d, w.id), RcfWrapper))

RECURSIVE LoadFlavors(_, _, _)
\* ResourceClassFlavor.flavor over the join wrappers, from the i-th on: each
\* loads its Flavor row on first use and keeps it; a row that is gone raises
LoadFlavors(d, rcfs, i) ==
    IF i > Len(rcfs) THEN [ok |-> TRUE, rcfs |-> rcfs]
    ELSE IF rcfs[i].flavor # Null THEN LoadFlavors(d, rcfs, i + 1)
    ELSE IF rcfs[i].row.flavor_id \notin DOMAIN d.flavor
    THEN [ok |-> FALSE, rcfs |-> rcfs]
    ELSE LoadFlavors(d,
             [rcfs EXCEPT ![i].flavor =
                 Some(Instance(d.flavor, rcfs[i].row.flavor_id))],
             i + 1)

\* ResourceClass.flavors_ids
FlavorsIds(d, w) ==
    LET r      == ResourceClassFlavors(d, w)
        loaded == LoadFlavors(d, r.val, 1)
        w2     == [r.w EXCEPT !.memo["resource_class_flavors"] = Some(loaded.rcfs)]
    IN  IF loaded.ok
        THEN Got(w2, Map(loaded.rcfs, LAMBDA f : Str(f.flavor[1].id)))
        ELSE Failed(w2, "DoesNotExist")

\* Flavor(...) with set_max_vms(value): a Flavor wrapper and its _max_vms
FlavorWrapper(inst, maxVms) == [id |-> inst.id, row |-> inst.row, max_vms |-> maxVms]

RECURSIVE JoinFlavors(_, _, _, _, _)
\* the loop of ResourceClass.flavors over the join wrappers, from the i-th
\* on: self.request, f.flavor (loaded on first use), Flavor.get, set_max_vms
JoinFlavors(d, hasRequest, rcfs, i, acc) ==
    IF i > Len(rcfs) THEN [ok |-> TRUE, rcfs |-> rcfs, acc |-> acc, val |-> acc]
    ELSE IF ~hasRequest
    THEN [ok |-> FALSE, rcfs |-> rcfs, acc |-> acc, val |-> "AttributeError"]
    ELSE LET loaded == IF rcfs[i].flavor # Null THEN rcfs
                       ELSE IF rcfs[i].row.flavor_id \in DOMAIN d.flavor
                       THEN [rcfs EXCEPT ![i].flavor =
                                Some(Instance(d.flavor, rcfs[i].row.flavor_id))]
                       ELSE rcfs
             got    == IF loaded[i].flavor = Null THEN Raise(d, "DoesNotExist")
                       ELSE FlavorGet(d, Str(loaded[i].flavor[1].id))
         IN  IF ~got.ok
             THEN [ok |-> FALSE, rcfs |-> loaded, acc |-> acc, val |-> got.val]
             ELSE JoinFlavors(d, hasRequest, loaded, i + 1,
                      Append(acc, FlavorWrapper(got.val, Some(loaded[i].row.max_vms))))

\* ResourceClass.flavors: self._flavors is assigned the empty list before
\* the loop fills it, so a loop ended by an exception leaves what it had
\* gathered in __dict__
Flavors(d, w) ==
    IF IsMemoized(w, "flavors") THEN Got(w, w.memo["flavors"][1])
    ELSE LET r      == ResourceClassFlavors(d, w)
             joined == JoinFlavors(d, w.hasRequest, r.val, 1, <<>>)
             w2     == [r.w EXCEPT !.memo["resource_class_flavors"] = Some(joined.rcfs),
                                   !.memo["flavors"] = Some(joined.acc)]
         IN  IF joined.ok THEN Got(w2, joined.acc) ELSE Failed(w2, joined.val)

\* added_flavors[str(added_flavor.flavor_id)] = added_flavor, over the join
\* rows in primary key order: the last join row of a flavor stays
LastJoin(d, rcPk, flavorPk) ==
    LET rows == {k \in DOMAIN d.rcf : /\ d.rcf[k].resource_class_id = rcPk
                                      /\ d.rcf[k].flavor_id = flavorPk}
    IN  IF rows = {} THEN Null
        ELSE Some(d.rcf[CHOOSE k \in rows : \A o \in rows : o <= k])

\* ResourceClass.all_flavors: Flavor.list(self.request), each flavor with the
\* max_vms of its join row when it has one
AllFlavors(d, w) ==
    IF IsMemoized(w, "all_flavors") THEN Got(w, w.memo["all_flavors"][1])
    ELSE IF ~w.hasRequest THEN Failed(w, "AttributeError")
    ELSE Memoize(w, "all_flavors",
                 Map(FlavorList(d),
                     LAMBDA f : LET added == LastJoin(d, w.id, f.id)
                                IN  IF added = Null THEN FlavorWrapper(f, Null)
                                    ELSE FlavorWrapper(f, Some(added[1].max_vms))))

RECURSIVE Concat(_, _)
\* reduce(lambda x, y: x + y, lists) of a list that is not empty
Concat(lists, i) ==
    IF i > Len(lists) THEN <<>> ELSE lists[i] \o Concat(lists, i + 1)

\* ResourceClass.hosts: the hosts of self.racks; reduce() of no list raises
Hosts(d, w) ==
    IF IsMemoized(w, "hosts") THEN Got(w, w.memo["hosts"][1])
    ELSE LET r == Racks(d, w)
         IN  IF Len(r.val) = 0 THEN Failed(r.w, "TypeError")
             ELSE Memoize(r.w, "hosts",
                          Concat(Map(r.val, LAMBDA rack : HostSet(d, rack.id)), 1))

\* ResourceClass.hosts_count: len(self.hosts)
HostsCount(d, w) ==
    LET r == Hosts(d, w)
    IN  IF r.ok THEN Got(r.w, Len(r.val)) ELSE r

\* a read of a relationship property of a ResourceClass wrapper
PropertyRead(d, w, p) ==
    CASE p = "resources"              -> Resources(d, w)
      [] p = "racks"                  -> Racks(d, w)
      [] p = "all_resources"          -> AllResources(d, w)
      [] p = "resource_class_flavors" -> ResourceClassFlavors(d, w)
      [] p = "flavors"                -> Flavors(d, w)
      [] p = "all_flavors"            -> AllFlavors(d, w)
      [] OTHER                        -> Hosts(d, w)

\* Rack(r), Host(h), Flavor(f): a wrapper of another class with its __dict__
OwnerProps == {"capacities", "hosts"}

OwnerWrapper(kind, inst) ==
    [kind |-> kind, id |-> inst.id, row |-> inst.row,
     memo |-> [p \in OwnerProps |-> Null]]

\* Rack.get / Host.get / Flavor.get as the view keeps its result
OwnerGet(d, kind, idStr) ==
    LET table == CASE kind = "rack" -> d.rack
                   [] kind = "host" -> d.host
                   [] OTHER         -> d.flavor
        got   == ObjectsGet(d, table, idStr)
    IN  IF ~got.ok THEN got ELSE Return(d, OwnerWrapper(kind, got.val))

\* Host.capacities / Rack.capacities / Flavor.capacities
Capacities(d, o) ==
    IF IsMemoized(o, "capacities") THEN Got(o, o.memo["capacities"][1])
    ELSE Memoize(o, "capacities", CapacitiesOf(d, o.kind, o.id))

\* Rack.hosts
RackHosts(d, o) ==
    IF IsMemoized(o, "hosts") THEN Got(o, o.memo["hosts"][1])
    ELSE Memoize(o, "hosts", HostSet(d, o.id))

QuotientMutant(n) == n

\* max_vms / ((max_vms % 7) + 1) of integers: the floor of the quotient
Quotient(n) == n \div ((n % 7) + 1)

RECURSIVE ConvertVms(_, _)
\* for vm in copies: vm.max_vms /= (vm.max_vms % 7) + 1, from the i-th on;
\* a max_vms of None ends the loop with TypeError
ConvertVms(vms, i) ==
    IF i > Len(vms) THEN [ok |-> TRUE, vms |-> vms]
    ELSE IF vms[i].max_vms = Null THEN [ok |-> FALSE, vms |-> vms]
    ELSE ConvertVms([vms EXCEPT ![i].max_vms = Some(Quotient(@[1]))], i + 1)

\* ResourceClass.running_virtual_machines: the deep copy of
\* resource_class_flavors is put in __dict__ before the loop changes it
RunningVirtualMachines(d, w) ==
    IF IsMemoized(w, "running_virtual_machines")
    THEN Got(w, w.memo["running_virtual_machines"][1])
    ELSE LET r      == ResourceClassFlavors(d, w)
             copies == Map(r.val, LAMBDA f : [id |-> f.id, row |-> f.row,
                                              flavor |-> f.flavor,
                                              max_vms |-> f.row.max_vms])
             done   == ConvertVms(copies, 1)
             w2     == [r.w EXCEPT !.memo["running_virtual_machines"] = Some(done.vms)]
         IN  IF done.ok THEN Got(w2, done.vms) ELSE Failed(w2, "TypeError")

\* Flavor.capacity(name): the first of self.capacities with that name; the
\* placeholder, an unsaved Capacity whose id is None, when there is none
FlavorCapacity(caps, name) ==
    LET hits == {i \in 1..Len(caps) : caps[i].row.name = name}
    IN  IF hits = {} THEN Null
        ELSE Some(caps[CHOOSE i \in hits : \A j \in hits : i <= j])

RECURSIVE UpdateCapacities(_, _, _, _, _)
\* the Capacity.update calls of Flavor.update, from the i-th on; caps is
\* flavor.capacities as memoized at the first of them
UpdateCapacities(d, pk, caps, values, i) ==
    IF i > Len(FlavorCapacityNames) THEN Return(d, Null)
    ELSE LET cap == FlavorCapacity(caps, FlavorCapacityNames[i])
             upd == IF cap = Null THEN Raise(d, "DoesNotExist")
                    ELSE CapacityUpdate(d, WrapperId(cap[1]), "flavor", pk,
                                        FlavorCapacityNames[i], values[i],
                                        FlavorCapacityUnits[i])
         IN  IF ~upd.ok THEN upd
             ELSE UpdateCapacities(upd.db, pk, caps, values, i + 1)

\* Flavor.update(request, flavor_id, name, vcpu, ram, root_disk,
\* ephemeral_disk, swap_disk): the wrapper it returns keeps the capacities
\* it read before it updated them
FlavorUpdate(d, flavorId, name, values) ==
    LET got     == ObjectsGet(d, d.flavor, flavorId)
        flavor  == [id |-> got.val.id, row |-> [got.val.row EXCEPT !.name = name]]
        saved   == [d EXCEPT !.flavor = Save(d.flavor, flavor)]
        caps    == CapacitiesOf(saved, "flavor", flavor.id)
        updated == UpdateCapacities(saved, flavor.id, caps, values, 1)
    IN  IF ~got.ok THEN got
        ELSE IF ~updated.ok THEN updated
        ELSE Return(updated.db,
                    [OwnerWrapper("flavor", flavor) EXCEPT
                        !.memo["capacities"] = Some(caps)])

\* a Capacity value: a number, or the text of the placeholder
Number(n) == [number |-> n]
Text(s) == [text |-> s]

UnableToRetrieve == "Unable to retrieve (Are the hosts configured properly?)"

\* filter(host__rack__resource_class=self._apiresource): the capacity is
\* attached to a host whose rack belongs to the resource class
UnderResourceClass(d, rcPk, capRow) ==
    /\ capRow.content_type = "host"
    /\ capRow.object_id \in DOMAIN d.host
    /\ LET rackRef == d.host[capRow.object_id].rack_id
       IN  /\ rackRef # Null
           /\ rackRef[1] \in DOMAIN d.rack
           /\ d.rack[rackRef[1]].resource_class_id = Some(rcPk)

\* .values('name', 'unit').annotate(value=Sum('value')).filter(name=...):
\* one row per unit of the matching capacities, with the sum of their values
TotalGroups(d, rcPk, name) ==
    LET rows  == {c \in DOMAIN d.cap : /\ UnderResourceClass(d, rcPk, d.cap[c])
                                       /\ d.cap[c].name = name}
        value == [c \in DOMAIN d.cap |-> d.cap[c].value]
    IN  {[name |-> name, unit |-> u,
          value |-> Number(SumOver(value, {c \in rows : d.cap[c].unit = u}))] :
            u \in {d.cap[c].unit : c \in rows}}

\* the attrs of the except branch
Placeholder(name) == [name |-> name, value |-> Text(UnableToRetrieve), unit |-> ""]

\* ResourceClass.total_cpu: the outcomes of a read.  [0] takes the first row
\* of the grouped query, whose order the query does not fix: any group when
\* there are several; with no group [0] raises and the except branch answers
TotalCpu(d, w) ==
    IF IsMemoized(w, "total_cpu") THEN {Got(w, w.memo["total_cpu"][1])}
    ELSE LET groups == TotalGroups(d, w.id, "cpu")
         IN  IF groups = {} THEN {Memoize(w, "total_cpu", Placeholder("cpu"))}
             ELSE {Memoize(w, "total_cpu", g) : g \in groups}

(***************************************************************************)
(* ResourceClass.set_resources and set_flavors.                            *)
(***************************************************************************)
WithResourceClassMutant(rack, rcRef) == rack

\* resource._apiresource.resource_class = ...: the rack instance as read,
\* with its resource class set (None, or the wrapper's resource class)
WithResourceClass(rack, rcRef) == [rack EXCEPT !.row.resource_class_id = rcRef]

RECURSIVE AssignRacks(_, _, _, _)
\* for resource_id in ids: Rack.get; resource_class = rcRef; save -- from
\* the i-th id on; the first id that names no rack ends the call
AssignRacks(d, ids, rcRef, i) ==
    IF i > Len(ids) THEN Return(d, Null)
    ELSE LET got == RackGet(d, ids[i])
         IN  IF ~got.ok THEN got
             ELSE AssignRacks(
                      [d EXCEPT !.rack =
                          Save(d.rack, WithResourceClass(got.val, rcRef))],
                      ids, rcRef, i + 1)

SetResourcesMutantRollback(d, w, resourcesIds) ==
    LET old      == ResourcesIds(d, w)
        released == AssignRacks(d, old.val, Null, 1)
        assigned == AssignRacks(released.db, resourcesIds, Some(w.id), 1)
    IN  IF released.ok /\ assigned.ok
        THEN [ok |-> TRUE, db |-> assigned.db, w |-> old.w, val |-> Null]
        ELSE [ok |-> FALSE, db |-> d, w |-> old.w, val |-> "DoesNotExist"]

\* ResourceClass.set_resources(request, resources_ids)
SetResources(d, w, resourcesIds) ==
    LET old      == ResourcesIds(d, w)
        released == AssignRacks(d, old.val, Null, 1)
        assigned == AssignRacks(released.db, resourcesIds, Some(w.id), 1)
    IN  IF ~released.ok
        THEN [ok |-> FALSE, db |-> released.db, w |-> old.w, val |-> released.val]
        ELSE [ok |-> assigned.ok, db |-> assigned.db, w |-> old.w,
              val |-> assigned.val]

RECURSIVE DeleteAssociations(_, _, _, _)
\* for flavor_id in ids: ResourceClassFlavor.delete(request, self.id, flavor_id)
DeleteAssociations(d, rcId, ids, i) ==
    IF i > Len(ids) THEN d
    ELSE DeleteAssociations(ResourceClassFlavorDelete(d, rcId, ids[i]).db,
                            rcId, ids, i + 1)

\* max_vms.get(key) of a dict: None when the key is absent
DictGet(dict, key) == IF key \in DOMAIN dict THEN Some(dict[key]) ELSE Null

RECURSIVE CreateAssociations(_, _, _, _, _)
\* for flavor_id in ids: Flavor.get; ResourceClassFlavor.create -- from the
\* i-th id on; the first id that names no flavor ends the call
CreateAssociations(d, rcInst, ids, maxVms, i) ==
    IF i > Len(ids) THEN Return(d, Null)
    ELSE LET got == FlavorGet(d, ids[i])
         IN  IF ~got.ok THEN got
             ELSE CreateAssociations(
                      ResourceClassFlavorCreate(
                          d, rcInst, got.val,
                          DictGet(maxVms, WrapperId(got.val))).db,
                      rcInst, ids, maxVms, i + 1)

\* ResourceClass.set_flavors(request, flavors_ids, max_vms)
SetFlavors(d, w, flavorsIds, maxVms) ==
    LET old     == FlavorsIds(d, w)
        removed == DeleteAssociations(d, Str(w.id), old.val, 1)
        created == CreateAssociations(removed, [id |-> w.id, row |-> w.row],
                                      flavorsIds, maxVms, 1)
    IN  IF ~old.ok
        THEN [ok |-> FALSE, db |-> d, w |-> old.w, val |-> old.val]
        ELSE [ok |-> created.ok, db |-> created.db, w |-> old.w,
              val |-> created.val]

(***************************************************************************)
(* The state machine.  Every call of the API is one action: it takes its   *)
(* arguments from small sets, leaves the store the call leaves, and        *)
(* records in `ret` the call, its arguments and its outcome.               *)
(***************************************************************************)
ServiceTypes == {"compute"}
Locations == {"dc1"}
Subnets == {"10.0.0.0/24"}
CapacityNames == {"cpu", "ram"}
CapacityUnits == {"", "GHz"}
FlavorValues == {<<1, 512, 10, 0, 0>>}

RackIds == {Str(n) : n \in 1..MaxRack}
FlavorIds == {Str(n) : n \in 1..MaxFlavor}
RcIds == {Str(n) : n \in 1..MaxRc}
RcArgs == {Null} \cup {Some(i) : i \in RcIds}

\* the id lists of at most MaxList ids
IdLists(ids) == UNION {[1..n -> ids] : n \in 0..MaxList}

\* the max_vms dicts over the ids of a list (None is given as the empty dict)
Dicts(ids, values) == UNION {[keys -> values] : keys \in SUBSET Range(ids)}

\* the store the dashboard starts from, as its fixture loads it: two
\* resource classes, a rack of the first with two hosts, a free rack, a host
\* in no rack, one flavor with its five capacities joined to the first
\* resource class, and a cpu capacity on the first host
InitDb ==
    [rc     |-> (1 :> [name |-> "a", service_type |-> "compute"])
                @@ (2 :> [name |-> "b", service_type |-> "compute"]),
     rack   |-> (1 :> [name |-> "a", resource_class_id |-> Some(1),
                       location |-> "dc1", subnet |-> "10.0.0.0/24"])
                @@ (2 :> [name |-> "b", resource_class_id |-> Null,
                          location |-> "dc1", subnet |-> "10.0.0.0/24"]),
     host   |-> (1 :> [name |-> "h1", rack_id |-> Some(1)])
                @@ (2 :> [name |-> "h2", rack_id |-> Some(1)])
                @@ (3 :> [name |-> "h3", rack_id |-> Null]),
     flavor |-> (1 :> [name |-> "a"]),
     rcf    |-> (1 :> [max_vms |-> Some(3), resource_class_id |-> 1,
                       flavor_id |-> 1]),
     cap    |-> [pk \in 1..5 |->
                    [content_type |-> "flavor", object_id |-> 1,
                     name |-> FlavorCapacityNames[pk],
                     value |-> <<1, 512, 10, 0, 0>>[pk],
                     unit |-> FlavorCapacityUnits[pk]]]
                @@ (6 :> [content_type |-> "host", object_id |-> 1,
                          name |-> "cpu", value |-> 4, unit |-> "GHz"]),
     seq    |-> [rc |-> 3, rack |-> 3, flavor |-> 2, rcf |-> 2, cap |-> 7]]

Idle == [pc |-> "idle"]

Init ==
    /\ db = InitDb
    /\ wrap = [s \in {"w1", "w2"} |-> Null]
    /\ ow = Null
    /\ ret = [op |-> "init", ok |-> TRUE]
    /\ procs = [p \in {"p1", "p2"} |-> Idle]

\* a call that touches no wrapper the view holds
Call(r, op, arg) ==
    /\ db' = r.db
    /\ ret' = [op |-> op, arg |-> arg, ok |-> r.ok, val |-> r.val]
    /\ UNCHANGED <<wrap, ow, procs>>

CallRackCreate(names, rcArgs) ==
    \E name \in names, rcArg \in rcArgs, loc \in Locations, subnet \in Subnets :
        /\ db.seq.rack <= MaxRack
        /\ Call(RackCreate(db, name, rcArg, loc, subnet), "Rack.create",
                [name |-> name, resource_class_id |-> rcArg, location |-> loc,
                 subnet |-> subnet])

CallRackList ==
    \E onlyFree \in BOOLEAN :
        Call(Return(db, RackList(db, onlyFree)), "Rack.list",
             [only_free_racks |-> onlyFree])

CallRackDelete(rackIds) ==
    \E id \in rackIds :
        Call(RackDelete(db, id), "Rack.delete", [id |-> id])

CallRackUpdate(names, rcArgs) ==
    \E id \in RackIds, name \in names, rcArg \in rcArgs, loc \in Locations,
       subnet \in Subnets :
        Call(RackUpdate(db, id, name, loc, subnet, rcArg), "Rack.update",
             [id |-> id, name |-> name, resource_class_id |-> rcArg,
              location |-> loc, subnet |-> subnet])

CallFlavorCreate(names) ==
    \E name \in names, values \in FlavorValues :
        /\ db.seq.flavor <= MaxFlavor
        /\ db.seq.cap + Len(FlavorCapacityNames) - 1 <= MaxCap
        /\ Call(FlavorCreate(db, name, values), "Flavor.create",
                [name |-> name, values |-> values])

CallFlavorDelete(flavorIds) ==
    \E id \in flavorIds :
        Call(FlavorDelete(db, id), "Flavor.delete", [id |-> id])

CallResourceClassDelete ==
    \E id \in RcIds :
        Call(ResourceClassDelete(db, id), "ResourceClass.delete", [id |-> id])

\* a call that gives the view a ResourceClass wrapper, kept in slot s
CallForWrapper(s, r, op, arg) ==
    /\ db' = r.db
    /\ wrap' = IF r.ok THEN [wrap EXCEPT ![s] = Some(r.val)] ELSE wrap
    /\ ret' = [op |-> op, arg |-> arg, ok |-> r.ok, val |-> r.val, slot |-> s]
    /\ UNCHANGED <<ow, procs>>

CallResourceClassCreate(slots, names) ==
    \E s \in slots, name \in names, st \in ServiceTypes :
        /\ db.seq.rc <= MaxRc
        /\ CallForWrapper(s, ResourceClassCreate(db, name, st),
                          "ResourceClass.create",
                          [name |-> name, service_type |-> st])

CallResourceClassGet(slots, rcIds) ==
    \E s \in slots, id \in rcIds :
        CallForWrapper(s, ResourceClassGet(db, id), "ResourceClass.get",
                       [id |-> id])

CallResourceClassUpdate(slots, names) ==
    \E s \in slots, id \in RcIds, name \in names, st \in ServiceTypes :
        CallForWrapper(s, ResourceClassUpdate(db, id, name, st),
                       "ResourceClass.update",
                       [id |-> id, name |-> name, service_type |-> st])

\* the racks of a resource class in the store, by primary key
RacksOf(d, rcPk) ==
    {pk \in DOMAIN d.rack : d.rack[pk].resource_class_id = Some(rcPk)}

\* the join rows of a resource class in the store, by primary key
JoinsOf(d, rcPk) == {k \in DOMAIN d.rcf : d.rcf[k].resource_class_id = rcPk}

\* the flavors a resource class is joined with in the store
FlavorsOf(d, rcPk) == {d.rcf[k].flavor_id : k \in JoinsOf(d, rcPk)}

\* a method call on the wrapper in slot s
CallOnWrapper(s, r, op, arg, before) ==
    /\ db' = r.db
    /\ wrap' = [wrap EXCEPT ![s] = Some(r.w)]
    /\ ret' = [op |-> op, arg |-> arg, ok |-> r.ok, val |-> r.val, slot |-> s,
               rc |-> r.w.id, before |-> before]
    /\ UNCHANGED <<ow, procs>>

CallSetResources(slots, rackIds) ==
    \E s \in slots, ids \in IdLists(rackIds) :
        /\ wrap[s] # Null
        /\ LET w == wrap[s][1]
           IN  CallOnWrapper(s, SetResources(db, w, ids), "set_resources",
                             [resources_ids |-> ids],
                             [racks |-> RacksOf(db, w.id),
                              memo |-> ResourcesIds(db, w).val])

CallSetFlavors(slots, flavorIds, values) ==
    \E s \in slots, ids \in IdLists(flavorIds) :
        \E maxVms \in Dicts(ids, values) :
            /\ wrap[s] # Null
            /\ db.seq.rcf + Len(ids) - 1 <= MaxRcf
            /\ LET w == wrap[s][1]
               IN  CallOnWrapper(s, SetFlavors(db, w, ids, maxVms), "set_flavors",
                                 [flavors_ids |-> ids, max_vms |-> maxVms],
                                 [joins |-> JoinsOf(db, w.id),
                                  memo |-> [ok |-> FlavorsIds(db, w).ok,
                                            val |-> FlavorsIds(db, w).val]])

\* a read of a property of the wrapper in slot s; `computed` tells whether
\* the read put something new into the wrapper's __dict__
ReadOnWrapper(s, r, prop) ==
    /\ wrap' = [wrap EXCEPT ![s] = Some(r.w)]
    /\ ret' = [op |-> "read", arg |-> [prop |-> prop], ok |-> r.ok, val |-> r.val,
               slot |-> s, rc |-> r.w.id, computed |-> r.w # wrap[s][1]]
    /\ UNCHANGED <<db, ow, procs>>

ReadResourcesIds(slots) ==
    \E s \in slots :
        /\ wrap[s] # Null
        /\ ReadOnWrapper(s, ResourcesIds(db, wrap[s][1]), "resources_ids")

ReadFlavorsIds(slots) ==
    \E s \in slots :
        /\ wrap[s] # Null
        /\ ReadOnWrapper(s, FlavorsIds(db, wrap[s][1]), "flavors_ids")

(***************************************************************************)
(* Spec: a view working on the racks of the resource classes through one   *)
(* wrapper, beside the class methods of Rack.                              *)
(***************************************************************************)
Next ==
    \/ CallRackCreate({"a"}, RcArgs)
    \/ CallRackList
    \/ CallRackDelete(RackIds)
    \/ CallRackUpdate({"a"}, RcArgs)
    \/ CallResourceClassGet({"w1"}, RcIds)
    \/ CallSetResources({"w1"}, RackIds)
    \/ ReadResourcesIds({"w1"})

Spec == Init /\ [][Next]_vars

(***************************************************************************)
(* Claims checked under Spec.                                              *)
(***************************************************************************)
\* the id strings of a set of primary keys
IdStrings(pks) == {Str(pk) : pk \in pks}

\* C1: after set_resources(request, ids) completes on a wrapper of the
\* resource class rc, a freshly fetched ResourceClass.get(rc).resources_ids
\* holds exactly the given ids, and every rack that belonged to rc before the
\* call and is not in the list has resource_class_id None.
C1_SetResourcesReplaces ==
    (ret.op = "set_resources" /\ ret.ok) =>
        LET fresh == ResourceClassGet(db, Str(ret.rc)).val
            ids   == Range(ret.arg.resources_ids)
        IN  /\ Range(ResourcesIds(db, fresh).val) = ids
            /\ \A pk \in ret.before.racks :
                   Str(pk) \notin ids =>
                       /\ pk \in DOMAIN db.rack
                       /\ db.rack[pk].resource_class_id = Null

\* C4: Rack.list(request, only_free_racks=True) returns exactly the racks of
\* Rack.list(request) whose resource_class_id is None, in the same order,
\* and Rack.list(request) returns every stored rack exactly once.
C4_FreeRacksAreTheUnassigned ==
    ret.op = "Rack.list" =>
        IF ret.arg.only_free_racks
        THEN ret.val = SelectSeq(RackList(db, FALSE),
                                 LAMBDA r : r.row.resource_class_id = Null)
        ELSE /\ Len(ret.val) = Cardinality(DOMAIN db.rack)
             /\ \A pk \in DOMAIN db.rack :
                    \E i \in DOMAIN ret.val : ret.val[i] = Instance(db.rack, pk)

\* a free-rack listing that keeps some racks and leaves some out
C4_Witness ==
    /\ ret.op = "Rack.list"
    /\ ret.arg.only_free_racks
    /\ Len(ret.val) >= 1
    /\ Len(ret.val) < Cardinality(DOMAIN db.rack)

(***************************************************************************)
(* SpecAssoc: a view replacing the racks and the flavors of the resource   *)
(* classes through one wrapper, while racks and flavors come and go.       *)
(***************************************************************************)
NextAssoc ==
    \/ CallResourceClassGet({"w1"}, {"1"})
    \/ CallSetResources({"w1"}, RackIds)
    \/ CallSetFlavors({"w1"}, FlavorIds, {5})
    \/ CallRackDelete({"1"})
    \/ CallFlavorDelete({"1"})

SpecAssoc == Init /\ [][NextAssoc]_vars

(***************************************************************************)
(* Claims checked under SpecAssoc.                                         *)
(***************************************************************************)
\* C3: set_resources and set_flavors replace all associations over any
\* sequence of calls, repeated calls through the same wrapper included: after
\* every call that completes, the racks (the flavors) the store associates
\* with the resource class are exactly the ids given to that call.
C3_ReplaceAllAfterEveryCall ==
    /\ (ret.op = "set_resources" /\ ret.ok) =>
           IdStrings(RacksOf(db, ret.rc)) = Range(ret.arg.resources_ids)
    /\ (ret.op = "set_flavors" /\ ret.ok) =>
           IdStrings(FlavorsOf(db, ret.rc)) = Range(ret.arg.flavors_ids)

\* the first index of a list whose id names no row of the table (0: none)
FirstMissing(table, ids) ==
    LET bad == {i \in DOMAIN ids :
                   ParsePk(ids[i]) = Null \/ ParsePk(ids[i])[1] \notin DOMAIN table}
    IN  IF bad = {} THEN 0 ELSE CHOOSE i \in bad : \A j \in bad : i <= j

\* the store a failed set_resources leaves: the racks released and the racks
\* assigned before the failing step stay so, every other row is as it was
ResourcesLeftPartial ==
    LET memo     == ret'.before.memo
        ids      == ret'.arg.resources_ids
        k        == FirstMissing(db.rack, memo)
        j        == FirstMissing(db.rack, ids)
        released == IF k = 0 THEN Range(memo) ELSE {memo[i] : i \in 1..(k - 1)}
        assigned == IF k = 0 THEN {ids[i] : i \in 1..(j - 1)} ELSE {}
    IN  /\ ret'.val = "DoesNotExist"
        /\ DOMAIN db'.rack = DOMAIN db.rack
        /\ \A pk \in DOMAIN db.rack :
               db'.rack[pk] =
                   [db.rack[pk] EXCEPT !.resource_class_id =
                       IF Str(pk) \in assigned THEN Some(ret'.rc)
                       ELSE IF Str(pk) \in released THEN Null ELSE @]
        /\ [db' EXCEPT !.rack = db.rack] = db

\* the store a failed set_flavors leaves: the join rows deleted and the join
\* rows created before the failing step stay so, every other row is as it was
FlavorsLeftPartial ==
    LET memo    == ret'.before.memo
        ids     == ret'.arg.flavors_ids
        dict    == ret'.arg.max_vms
        j       == FirstMissing(db.flavor, ids)
        removed == {r \in DOMAIN db.rcf :
                       /\ db.rcf[r].resource_class_id = ret'.rc
                       /\ Str(db.rcf[r].flavor_id) \in Range(memo.val)}
        created == {db.seq.rcf + i - 1 : i \in 1..(j - 1)}
    IN  /\ ret'.val = "DoesNotExist"
        /\ IF ~memo.ok THEN db' = db
           ELSE /\ DOMAIN db'.rcf = (DOMAIN db.rcf \ removed) \cup created
                /\ \A r \in DOMAIN db.rcf \ removed : db'.rcf[r] = db.rcf[r]
                /\ \A i \in 1..(j - 1) :
                       db'.rcf[db.seq.rcf + i - 1] =
                           [max_vms |-> IF ids[i] \in DOMAIN dict
                                        THEN Some(dict[ids[i]]) ELSE Null,
                            resource_class_id |-> ret'.rc,
                            flavor_id |-> ParsePk(ids[i])[1]]
                /\ db'.seq.rcf = db.seq.rcf + j - 1
                /\ [db' EXCEPT !.rcf = db.rcf, !.seq.rcf = db.seq.rcf] = db

\* C8 (as amended): when a step of set_resources or set_flavors fails, the
\* error reaches the caller and nothing is rolled back: the store is the old
\* one with exactly the removals and creations made before the failing step.
C8_NoRollback ==
    [][/\ (ret'.op = "set_resources" /\ ~ret'.ok) => ResourcesLeftPartial
       /\ (ret'.op = "set_flavors" /\ ~ret'.ok) => FlavorsLeftPartial]_vars

\* a failed set_resources / set_flavors had saved or deleted something
\* before the step that failed
ResourcesFailedPartway ==
    /\ ret'.op = "set_resources" /\ ~ret'.ok
    /\ LET k == FirstMissing(db.rack, ret'.before.memo)
       IN  IF k = 0
           THEN Len(ret'.before.memo)
                    + FirstMissing(db.rack, ret'.arg.resources_ids) > 1
           ELSE k > 1

FlavorsFailedPartway ==
    /\ ret'.op = "set_flavors" /\ ~ret'.ok
    /\ ret'.before.memo.ok
    /\ Len(ret'.before.memo.val)
           + FirstMissing(db.flavor, ret'.arg.flavors_ids) > 1

\* C8 (as claimed): ... and after a failure partway the stored associations
\* are neither the old set nor the requested set.
C8_NeitherOldNorRequested ==
    [][/\ ResourcesFailedPartway =>
              /\ ResourcesLeftPartial
              /\ RacksOf(db', ret'.rc) # RacksOf(db, ret'.rc)
              /\ IdStrings(RacksOf(db', ret'.rc)) # Range(ret'.arg.resources_ids)
       /\ FlavorsFailedPartway =>
              /\ FlavorsLeftPartial
              /\ JoinsOf(db', ret'.rc) # JoinsOf(db, ret'.rc)
              /\ IdStrings(FlavorsOf(db', ret'.rc)) # Range(ret'.arg.flavors_ids)]_vars

\* a failed set_resources that released a rack of the class and assigned
\* another before it failed
C8_Witness ==
    /\ ret.op = "set_resources"
    /\ ~ret.ok
    /\ ret.before.racks \ RacksOf(db, ret.rc) # {}
    /\ RacksOf(db, ret.rc) \ ret.before.racks # {}
    /\ IdStrings(RacksOf(db, ret.rc)) # Range(ret.arg.resources_ids)

(***************************************************************************)
(* SpecFlavor: a view replacing the flavors of the resource classes        *)
(* through one wrapper, while flavors are created and deleted.             *)
(***************************************************************************)
ReadResourceClassFlavors(slots) ==
    \E s \in slots :
        /\ wrap[s] # Null
        /\ ReadOnWrapper(s, ResourceClassFlavors(db, wrap[s][1]),
                         "resource_class_flavors")

NextFlavor ==
    \/ CallResourceClassGet({"w1"}, RcIds)
    \/ CallSetFlavors({"w1"}, FlavorIds, {5})
    \/ CallFlavorCreate({"a"})
    \/ CallFlavorDelete(FlavorIds)
    \/ ReadResourceClassFlavors({"w1"})

SpecFlavor == Init /\ [][NextFlavor]_vars

\* C2: after set_flavors(request, [f1], max_vms={f1: n}) completes on a
\* wrapper of the resource class rc, the join row of (rc, f1) has max_vms n,
\* every join row rc had before the call is gone, and (rc, f1) is the only
\* association left for rc.
C2_SetFlavorsReplaces ==
    (/\ ret.op = "set_flavors" /\ ret.ok
     /\ Len(ret.arg.flavors_ids) = 1
     /\ ret.arg.flavors_ids[1] \in DOMAIN ret.arg.max_vms) =>
        LET f1   == ret.arg.flavors_ids[1]
            rows == JoinsOf(db, ret.rc)
        IN  /\ Cardinality(rows) = 1
            /\ \A r \in rows :
                   /\ Str(db.rcf[r].flavor_id) = f1
                   /\ db.rcf[r].max_vms = Some(ret.arg.max_vms[f1])
            /\ ret.before.joins \cap DOMAIN db.rcf = {}

(***************************************************************************)
(* SpecCrud: the create and delete class methods of every entity.          *)
(***************************************************************************)
\* the content objects a Capacity can be attached to: hosts, racks, flavors
ContentObjects(d) ==
    {<<"host", pk>> : pk \in DOMAIN d.host}
        \cup {<<"rack", pk>> : pk \in DOMAIN d.rack}
        \cup {<<"flavor", pk>> : pk \in DOMAIN d.flavor}

CallCapacityCreate(objects, names, values, units) ==
    \E o \in ContentObjects(db), name \in names, value \in values, unit \in units :
        /\ o \in objects
        /\ db.seq.cap <= MaxCap
        /\ Cardinality({c \in DOMAIN db.cap : db.cap[c].content_type = o[1]})
               < MaxOwnedCaps
        /\ Call(CapacityCreate(db, o[1], o[2], name, value, unit),
                "Capacity.create",
                [content_type |-> o[1], object_id |-> o[2], name |-> name,
                 value |-> value, unit |-> unit])

CallResourceClassFlavorCreate(rcs, flavors, values) ==
    \E rc \in DOMAIN db.rc, fl \in DOMAIN db.flavor, maxVms \in values :
        /\ rc \in rcs /\ fl \in flavors
        /\ db.seq.rcf <= MaxRcf
        /\ Call(ResourceClassFlavorCreate(db, Instance(db.rc, rc),
                                          Instance(db.flavor, fl), Some(maxVms)),
                "ResourceClassFlavor.create",
                [max_vms |-> Some(maxVms), resource_class_id |-> rc,
                 flavor_id |-> fl])

NextCrud ==
    \/ CallRackCreate({"a"}, {Null, Some("1")})
    \/ CallRackDelete(RackIds)
    \/ CallFlavorCreate({"b"})
    \/ CallFlavorDelete(FlavorIds)
    \/ CallResourceClassCreate({"w1"}, {"a"})
    \/ CallResourceClassDelete
    \/ CallCapacityCreate({<<"host", 3>>}, {"cpu"}, {4}, {"GHz"})
    \/ CallResourceClassFlavorCreate({1}, {1}, {5})
    \/ CallRackUpdate({"a"}, {Null})

SpecCrud == Init /\ [][NextCrud]_vars

\* the table of an entity kind
Table(d, kind) ==
    CASE kind = "Rack" -> d.rack
      [] kind = "ResourceClass" -> d.rc
      [] kind = "Flavor" -> d.flavor
      [] kind = "Capacity" -> d.cap
      [] kind = "ResourceClassFlavor" -> d.rcf
      [] kind = "Host" -> d.host

Kinds == {"Rack", "ResourceClass", "Flavor", "Capacity", "ResourceClassFlavor",
          "Host"}

\* the rows that hang on a row of the given kind: the hosts of a rack, the
\* join rows of a flavor or a resource class, the capacities of the row and
\* of those hosts (what the ORM's default cascade takes along)
HangsOn(d, kind, pk, otherKind, other) ==
    LET row == Table(d, otherKind)[other]
    IN  CASE otherKind = "Host" -> kind = "Rack" /\ row.rack_id = Some(pk)
          [] otherKind = "Rack" ->
                 kind = "ResourceClass" /\ row.resource_class_id = Some(pk)
          [] otherKind = "ResourceClassFlavor" ->
                 \/ kind = "Flavor" /\ row.flavor_id = pk
                 \/ kind = "ResourceClass" /\ row.resource_class_id = pk
          [] otherKind = "Capacity" ->
                 \/ kind = "Rack" /\ row.content_type = "rack"
                                  /\ row.object_id = pk
                 \/ kind = "Flavor" /\ row.content_type = "flavor"
                                    /\ row.object_id = pk
                 \/ kind = "Rack" /\ row.content_type = "host"
                      /\ row.object_id \in DOMAIN d.host
                      /\ d.host[row.object_id].rack_id = Some(pk)
          [] OTHER -> FALSE

\* C6: for each class that offers delete (Rack, ResourceClass, Flavor),
\* delete(request, id) of an existing row removes the row of that same kind
\* with that id and returns None, and leaves the rows of every other kind
\* (those that do not hang on the deleted row) untouched; in particular
\* ResourceClass.delete removes the ResourceClass and removes no Flavor.
C6_DeleteRemovesItsOwnKind ==
    [][\A kind \in {"Rack", "ResourceClass", "Flavor"} :
          (/\ ret'.op = kind \o ".delete"
           /\ ParsePk(ret'.arg.id) # Null
           /\ ParsePk(ret'.arg.id)[1] \in DOMAIN Table(db, kind)) =>
              LET pk == ParsePk(ret'.arg.id)[1]
              IN  /\ ret'.ok
                  /\ ret'.val = Null
                  /\ Table(db', kind) = Without(Table(db, kind), {pk})
                  /\ \A other \in Kinds \ {kind} :
                         \A k \in DOMAIN Table(db, other) :
                             ~HangsOn(db, kind, pk, other, k) =>
                                 /\ k \in DOMAIN Table(db', other)
                                 /\ Table(db', other)[k] = Table(db, other)[k]]_vars

\* the fields a create call was given, as the row it is to persist
GivenRow(kind, arg) ==
    CASE kind = "Rack" ->
             [name |-> arg.name, resource_class_id |-> RcColumn(arg.resource_class_id),
              location |-> arg.location, subnet |-> arg.subnet]
      [] kind = "Flavor" -> [name |-> arg.name]
      [] OTHER -> arg

\* the primary key the next row of a kind gets
NextPk(d, kind) ==
    CASE kind = "Rack" -> d.seq.rack
      [] kind = "ResourceClass" -> d.seq.rc
      [] kind = "Flavor" -> d.seq.flavor
      [] kind = "Capacity" -> d.seq.cap
      [] kind = "ResourceClassFlavor" -> d.seq.rcf

\* C7: for every entity class (Capacity, Rack, ResourceClass, Flavor,
\* ResourceClassFlavor), a create that completes persists exactly one new row
\* of that entity carrying the given field values and returns a wrapper of
\* that row, whose id is the string form of the row's id.
C7_CreateReturnsTheNewRow ==
    [][\A kind \in Kinds \ {"Host"} :
          (ret'.op = kind \o ".create" /\ ret'.ok) =>
              LET pk == NextPk(db, kind)
              IN  /\ DOMAIN Table(db', kind) = DOMAIN Table(db, kind) \cup {pk}
                  /\ pk \notin DOMAIN Table(db, kind)
                  /\ \A k \in DOMAIN Table(db, kind) :
                         Table(db', kind)[k] = Table(db, kind)[k]
                  /\ Table(db', kind)[pk] = GivenRow(kind, ret'.arg)
                  /\ ret'.val # Null
                  /\ ret'.val.id = pk
                  /\ ret'.val.row = Table(db', kind)[pk]
                  /\ WrapperId(ret'.val) = Str(pk)]_vars

(***************************************************************************)
(* SpecCap: capacities are attached to hosts and the fixture's rack moves  *)
(* between the resource classes, while a view reads total_cpu.             *)
(***************************************************************************)
ReadTotalCpu(slots) ==
    \E s \in slots :
        /\ wrap[s] # Null
        /\ \E r \in TotalCpu(db, wrap[s][1]) : ReadOnWrapper(s, r, "total_cpu")

NextCap ==
    \/ CallCapacityCreate({<<"host", h>> : h \in 1..3}, CapacityNames, {8},
                          CapacityUnits)
    \/ CallRackUpdate({"a"}, {Null, Some("2")})
    \/ CallResourceClassGet({"w1"}, {"1", "2"})
    \/ ReadTotalCpu({"w1"})

SpecCap == Init /\ [][NextCap]_vars

\* the cpu capacities attached to hosts in racks of a resource class
CpuRowsOf(d, rcPk) ==
    {c \in DOMAIN d.cap :
        /\ d.cap[c].name = "cpu"
        /\ d.cap[c].content_type = "host"
        /\ \E h \in DOMAIN d.host, r \in DOMAIN d.rack :
               /\ d.cap[c].object_id = h
               /\ d.host[h].rack_id = Some(r)
               /\ d.rack[r].resource_class_id = Some(rcPk)}

ValueOf(d) == [c \in DOMAIN d.cap |-> d.cap[c].value]

\* a read of total_cpu that computed it
ComputedTotalCpu ==
    ret.op = "read" /\ ret.arg.prop = "total_cpu" /\ ret.computed

\* C5: total_cpu is the placeholder when no 'cpu' capacity is
\* attached to a host in a rack of the resource class, and otherwise a
\* Capacity whose value is the sum of the values of all those capacities.
C5_TotalCpuSumsAll ==
    ComputedTotalCpu =>
        LET rows == CpuRowsOf(db, ret.rc)
        IN  IF rows = {} THEN ret.val = Placeholder("cpu")
            ELSE /\ ret.val.name = "cpu"
                 /\ ret.val.value = Number(SumOver(ValueOf(db), rows))

(***************************************************************************)
(* SpecConc: two requests served at the same time.  Each request gets its  *)
(* own wrapper of resource class 1 and calls set_resources or set_flavors; *)
(* every statement of the call that reads or writes the store is one step, *)
(* and the steps of the two requests interleave freely.                    *)
(***************************************************************************)
Processes == {"p1", "p2"}
ConcRc == "1"
ConcRackLists == {<<"1">>, <<"2">>}
ConcFlavorLists == {<<>>, <<"1">>}

Running(pr) == pr.pc \notin {"idle", "done", "failed"}

\* where a request goes on after its step: through the old ids, then
\* through the given ids, then to its end
Onward(pr, phase, i) ==
    LET first == IF pr.kind = "resources" THEN "release_get" ELSE "delete"
        next  == IF pr.kind = "resources" THEN "assign_get" ELSE "create_get"
    IN  IF phase = "old" /\ i <= Len(pr.old) THEN [pr EXCEPT !.pc = first, !.i = i]
        ELSE IF phase = "old" /\ Len(pr.ids) > 0 THEN [pr EXCEPT !.pc = next, !.i = 1]
        ELSE IF phase = "new" /\ i <= Len(pr.ids) THEN [pr EXCEPT !.pc = next, !.i = i]
        ELSE [pr EXCEPT !.pc = "done", !.i = i]

\* the view: ResourceClass.get(request, id), then the call of the method
Begin(p, kind, lists) ==
    \E ids \in lists :
        LET got   == ResourceClassGet(db, ConcRc)
            other == CHOOSE q \in Processes : q # p
        IN  /\ procs[p].pc = "idle"
            /\ got.ok
            /\ procs' = [q \in Processes |->
                  IF q = p
                  THEN [pc |-> "read_old", kind |-> kind, ids |-> ids,
                        w |-> got.val, old |-> <<>>, i |-> 1, snap |-> Null,
                        turn |-> Cardinality({o \in Processes :
                                                 procs[o].pc # "idle"}) + 1,
                        overlapped |-> Running(procs[other])]
                  ELSE IF Running(procs[q])
                       THEN [procs[q] EXCEPT !.overlapped = TRUE]
                       ELSE procs[q]]
            /\ UNCHANGED <<db, wrap, ow, ret>>

\* for ... in self.resources_ids / self.flavors_ids: the header of the
\* first loop reads the old associations
ReadOld(p) ==
    LET pr == procs[p]
        r  == IF pr.kind = "resources" THEN ResourcesIds(db, pr.w)
              ELSE FlavorsIds(db, pr.w)
    IN  /\ pr.pc = "read_old"
        /\ procs' = [procs EXCEPT ![p] =
              IF r.ok THEN Onward([pr EXCEPT !.w = r.w, !.old = r.val], "old", 1)
              ELSE [pr EXCEPT !.pc = "failed", !.w = r.w]]
        /\ UNCHANGED <<db, wrap, ow, ret>>

\* resource = Rack.get(request, resource_id) / flavor = Flavor.get(...)
GetStep(p) ==
    LET pr  == procs[p]
        got == CASE pr.pc = "release_get" -> RackGet(db, pr.old[pr.i])
                 [] pr.pc = "assign_get"  -> RackGet(db, pr.ids[pr.i])
                 [] OTHER                 -> FlavorGet(db, pr.ids[pr.i])
        to  == CASE pr.pc = "release_get" -> "release_save"
                 [] pr.pc = "assign_get"  -> "assign_save"
                 [] OTHER                 -> "create_save"
    IN  /\ pr.pc \in {"release_get", "assign_get", "create_get"}
        /\ procs' = [procs EXCEPT ![p] =
              IF got.ok THEN [pr EXCEPT !.pc = to, !.snap = Some(got.val)]
              ELSE [pr EXCEPT !.pc = "failed"]]
        /\ UNCHANGED <<db, wrap, ow, ret>>

\* resource._apiresource.resource_class = ...; resource._apiresource.save()
SaveStep(p) ==
    LET pr    == procs[p]
        rcRef == IF pr.pc = "release_save" THEN Null ELSE Some(pr.w.id)
        phase == IF pr.pc = "release_save" THEN "old" ELSE "new"
    IN  /\ pr.pc \in {"release_save", "assign_save"}
        /\ db' = [db EXCEPT !.rack = Save(db.rack, WithResourceClass(pr.snap[1], rcRef))]
        /\ procs' = [procs EXCEPT ![p] =
                        Onward([pr EXCEPT !.snap = Null], phase, pr.i + 1)]
        /\ UNCHANGED <<wrap, ow, ret>>

\* ResourceClassFlavor.delete(request, self.id, flavor_id)
DeleteStep(p) ==
    LET pr == procs[p]
    IN  /\ pr.pc = "delete"
        /\ db' = ResourceClassFlavorDelete(db, Str(pr.w.id), pr.old[pr.i]).db
        /\ procs' = [procs EXCEPT ![p] = Onward(pr, "old", pr.i + 1)]
        /\ UNCHANGED <<wrap, ow, ret>>

\* ResourceClassFlavor.create(request, max_vms=..., flavor=..., resource_class=...)
CreateStep(p) ==
    LET pr == procs[p]
    IN  /\ pr.pc = "create_save"
        /\ db.seq.rcf <= MaxRcf
        /\ db' = ResourceClassFlavorCreate(
                     db, [id |-> pr.w.id, row |-> pr.w.row], pr.snap[1],
                     DictGet(<<>>, WrapperId(pr.snap[1]))).db
        /\ procs' = [procs EXCEPT ![p] =
                        Onward([pr EXCEPT !.snap = Null], "new", pr.i + 1)]
        /\ UNCHANGED <<wrap, ow, ret>>

NextConc ==
    \E p \in Processes :
        \/ Begin(p, "resources", ConcRackLists)
        \/ Begin(p, "flavors", ConcFlavorLists)
        \/ ReadOld(p)
        \/ GetStep(p)
        \/ SaveStep(p)
        \/ DeleteStep(p)
        \/ CreateStep(p)

SpecConc == Init /\ [][NextConc]_vars

\* the store holds exactly the associations of an id list: the racks (or
\* the flavors, one join row each) of the resource class are those listed
HoldsList(d, kind, rcPk, ids) ==
    LET pks == {ParsePk(ids[i])[1] : i \in 1..Len(ids)}
    IN  IF kind = "resources" THEN RacksOf(d, rcPk) = pks
        ELSE /\ FlavorsOf(d, rcPk) = pks
             /\ Cardinality(JoinsOf(d, rcPk)) = Cardinality(pks)

BothDone(kind) ==
    \A p \in Processes : procs[p].pc = "done" /\ procs[p].kind = kind

\* C9: two set_resources (or two set_flavors) requests on one resource class
\* that do not overlap leave the id list of the later one; a final state
\* that holds the id list of neither request arises only when their steps
\* interleaved.
C9_OnlyInterleavingMixes ==
    \A kind \in {"resources", "flavors"} :
        BothDone(kind) =>
            LET rcPk == ParsePk(ConcRc)[1]
            IN  /\ (\A p \in Processes : ~procs[p].overlapped) =>
                       \E p \in Processes :
                           /\ procs[p].turn = 2
                           /\ HoldsList(db, kind, rcPk, procs[p].ids)
                /\ (\A p \in Processes : ~HoldsList(db, kind, rcPk, procs[p].ids))
                       => \E p \in Processes : procs[p].overlapped

\* two interleaved set_resources requests ended with the list of neither
C9_Witness ==
    /\ BothDone("resources")
    /\ \A p \in Processes :
           ~HoldsList(db, "resources", ParsePk(ConcRc)[1], procs[p].ids)

(***************************************************************************)
(* SpecMemo: a view keeps a ResourceClass wrapper and a wrapper of a rack, *)
(* a host or a flavor, and reads their relationship properties while the   *)
(* store changes under them.                                               *)
(***************************************************************************)
RelProps == {"resources", "racks", "all_resources", "resource_class_flavors",
             "flavors", "all_flavors", "hosts"}

ReadProperty(slots, props) ==
    \E s \in slots, p \in props :
        /\ wrap[s] # Null
        /\ \/ IsMemoized(wrap[s][1], p)
           \/ Cardinality({q \in props : IsMemoized(wrap[s][1], q)}) < MaxReads
        /\ ReadOnWrapper(s, PropertyRead(db, wrap[s][1], p), p)

\* the request ends and its wrappers with it
EndRequest ==
    /\ \/ ow # Null
       \/ \E s \in DOMAIN wrap : wrap[s] # Null
    /\ ow' = Null
    /\ wrap' = [s \in DOMAIN wrap |-> Null]
    /\ ret' = [op |-> "end", ok |-> TRUE]
    /\ UNCHANGED <<db, procs>>

\* Rack.get / Host.get / Flavor.get: the view keeps the wrapper
CallOwnerGet(owners) ==
    \E o \in owners :
        LET r == OwnerGet(db, o[1], Str(o[2]))
        IN  /\ \A s \in DOMAIN wrap : wrap[s] = Null
            /\ ow' = IF r.ok THEN Some(r.val) ELSE ow
            /\ ret' = [op |-> "get", arg |-> [kind |-> o[1], id |-> Str(o[2])],
                       ok |-> r.ok, val |-> r.val, slot |-> "ow"]
            /\ UNCHANGED <<db, wrap, procs>>

\* a read of capacities, or of hosts on a rack, on the wrapper the view keeps
ReadOwnerProperty ==
    \E p \in OwnerProps :
        /\ ow # Null
        /\ p = "hosts" => ow[1].kind = "rack"
        /\ LET r == IF p = "hosts" THEN RackHosts(db, ow[1])
                    ELSE Capacities(db, ow[1])
           IN  /\ ow' = Some(r.w)
               /\ ret' = [op |-> "read", arg |-> [prop |-> p], ok |-> r.ok,
                          val |-> r.val, slot |-> "ow", rc |-> r.w.id,
                          computed |-> r.w # ow[1]]
        /\ UNCHANGED <<db, wrap, procs>>

\* a request keeps one wrapper
NextMemo ==
    \/ ow = Null /\ CallResourceClassGet({"w1"}, {"1"})
    \/ ReadProperty({"w1"}, RelProps)
    \/ CallSetResources({"w1"}, {"2"})
    \/ CallRackDelete({"1"})
    \/ CallFlavorDelete({"1"})
    \/ CallResourceClassFlavorCreate({1}, {1}, {5})
    \/ CallOwnerGet({<<"rack", 1>>, <<"host", 1>>})
    \/ ReadOwnerProperty
    \/ CallCapacityCreate({<<"host", 1>>}, {"cpu"}, {4}, {""})
    \/ EndRequest

SpecMemo == Init /\ [][NextMemo]_vars

\* ---- what the store holds, for each relationship property ----
InPkOrder(table, pks) == [i \in 1..Cardinality(pks) |->
                             [id |-> SortedSeq(pks)[i], row |-> table[SortedSeq(pks)[i]]]]

RacksNow(d, rcPk) == InPkOrder(d.rack, RacksOf(d, rcPk))

AllResourcesNow(d, rcPk) ==
    InPkOrder(d.rack, {r \in DOMAIN d.rack :
                          d.rack[r].resource_class_id \in {Null, Some(rcPk)}})

JoinsNow(d, rcPk) == InPkOrder(d.rcf, JoinsOf(d, rcPk))

FlavorsNow(d, rcPk) ==
    [i \in 1..Len(JoinsNow(d, rcPk)) |->
        LET join == JoinsNow(d, rcPk)[i].row
        IN  [id |-> join.flavor_id, row |-> d.flavor[join.flavor_id],
             max_vms |-> Some(join.max_vms)]]

AllFlavorsNow(d, rcPk) ==
    [i \in 1..Cardinality(DOMAIN d.flavor) |->
        LET f     == SortedSeq(DOMAIN d.flavor)[i]
            joins == {k \in JoinsOf(d, rcPk) : d.rcf[k].flavor_id = f}
        IN  [id |-> f, row |-> d.flavor[f],
             max_vms |-> IF joins = {} THEN Null
                         ELSE Some(d.rcf[CHOOSE k \in joins :
                                             \A o \in joins : o <= k].max_vms)]]

HostsOfRack(d, rackPk) ==
    InPkOrder(d.host, {h \in DOMAIN d.host : d.host[h].rack_id = Some(rackPk)})

RECURSIVE HostsOfRacks(_, _)
HostsOfRacks(d, racks) ==
    IF racks = <<>> THEN <<>>
    ELSE HostsOfRack(d, Head(racks)) \o HostsOfRacks(d, Tail(racks))

HostsNow(d, rcPk) == HostsOfRacks(d, SortedSeq(RacksOf(d, rcPk)))

StoreValue(d, rcPk, p) ==
    CASE p = "resources"              -> RacksNow(d, rcPk)
      [] p = "racks"                  -> RacksNow(d, rcPk)
      [] p = "all_resources"          -> AllResourcesNow(d, rcPk)
      [] p = "resource_class_flavors" -> JoinsNow(d, rcPk)
      [] p = "flavors"                -> FlavorsNow(d, rcPk)
      [] p = "all_flavors"            -> AllFlavorsNow(d, rcPk)
      [] OTHER                        -> HostsNow(d, rcPk)

OwnerStoreValue(d, o, p) ==
    IF p = "hosts" THEN HostsOfRack(d, o.id)
    ELSE InPkOrder(d.cap, {c \in DOMAIN d.cap : /\ d.cap[c].content_type = o.kind
                                                 /\ d.cap[c].object_id = o.id})

\* a property's list without what its wrappers have cached themselves
Plain(list) ==
    [i \in 1..Len(list) |->
        IF "flavor" \in DOMAIN list[i] THEN [id |-> list[i].id, row |-> list[i].row]
        ELSE list[i]]

\* the properties a property is computed from
Underlying(p) ==
    CASE p = "flavors" -> {"resource_class_flavors"}
      [] p = "hosts"   -> {"racks"}
      [] OTHER         -> {}

\* one wrapper instance across a step: what it had memoized stays, a read of
\* a memoized property gives the memoized list, and a first read gives what
\* the store holds (always, or when nothing it is computed from has been
\* memoized before)
MemoKept(before, after, slot, props, fresh(_), always) ==
    /\ \A p \in props :
           before.memo[p] # Null =>
               /\ after.memo[p] # Null
               /\ Plain(after.memo[p][1]) = Plain(before.memo[p][1])
    /\ (ret'.op = "read" /\ ret'.slot = slot /\ ret'.ok) =>
           LET p == ret'.arg.prop
           IN  IF before.memo[p] # Null
               THEN Plain(ret'.val) = Plain(before.memo[p][1])
               ELSE (always \/ \A u \in Underlying(p) \cap props : before.memo[u] = Null) =>
                        Plain(ret'.val) = fresh(p)

\* every step keeps the memo of the wrappers that live across it
MemoKeptByStep(always) ==
    /\ (/\ wrap["w1"] # Null /\ wrap'["w1"] # Null
        /\ ~(ret'.op = "ResourceClass.get" /\ ret'.ok)) =>
           MemoKept(wrap["w1"][1], wrap'["w1"][1], "w1", RelProps,
                    LAMBDA p : StoreValue(db, wrap["w1"][1].id, p), always)
    /\ (ow # Null /\ ow' # Null /\ ~(ret'.op = "get" /\ ret'.ok)) =>
           MemoKept(ow[1], ow'[1], "ow", OwnerProps,
                    LAMBDA p : OwnerStoreValue(db, ow[1], p), always)

GetKinds == {"Rack", "ResourceClass", "Flavor"}
UpdateKinds == {"Rack", "ResourceClass"}
DeleteKinds == {"Rack", "ResourceClass", "Flavor"}

\* C11: for every wrapper of every entity class, wrapper.id is the string
\* form of the row's id; two wrappers of one kind have equal ids exactly when
\* their rows have equal ids; and the id a wrapper reports, passed back to
\* get, update or delete of its class, addresses the row the wrapper is of.
C11_IdAddressesTheRow ==
    [][/\ \A kind \in Kinds :
              \A pk \in DOMAIN Table(db', kind) :
                  LET w == Instance(Table(db', kind), pk)
                  IN  /\ WrapperId(w) = Str(pk)
                      /\ ParsePk(WrapperId(w)) = Some(pk)
                      /\ \A pk2 \in DOMAIN Table(db', kind) :
                             (WrapperId(Instance(Table(db', kind), pk2)) = WrapperId(w))
                                 <=> pk2 = pk
                      /\ kind \in GetKinds =>
                             ObjectsGet(db', Table(db', kind), WrapperId(w))
                                 = Return(db', w)
       /\ \A kind \in UpdateKinds :
              \A pk \in DOMAIN Table(db, kind) :
                  (/\ ret'.op = kind \o ".update"
                   /\ ret'.arg.id = WrapperId(Instance(Table(db, kind), pk))) =>
                      \A k \in DOMAIN Table(db, kind) \ {pk} :
                          /\ k \in DOMAIN Table(db', kind)
                          /\ Table(db', kind)[k] = Table(db, kind)[k]
       /\ \A kind \in DeleteKinds :
              \A pk \in DOMAIN Table(db, kind) :
                  (/\ ret'.op = kind \o ".delete"
                   /\ ret'.arg.id = WrapperId(Instance(Table(db, kind), pk))) =>
                      /\ ret'.ok
                      /\ DOMAIN Table(db', kind) = DOMAIN Table(db, kind) \ {pk}]_vars

(***************************************************************************)
(* SpecVms: join rows with different max_vms are made while a view reads   *)
(* running_virtual_machines and resource_class_flavors.                    *)
(***************************************************************************)
VmsValues == {0, 6, 7, 20, -3}

ReadRunningVirtualMachines(slots) ==
    \E s \in slots :
        /\ wrap[s] # Null
        /\ ReadOnWrapper(s, RunningVirtualMachines(db, wrap[s][1]),
                         "running_virtual_machines")

NextVms ==
    \/ CallResourceClassGet({"w1"}, {"1"})
    \/ CallResourceClassFlavorCreate({1}, {1}, VmsValues)
    \/ CallSetFlavors({"w1"}, {"1"}, {6})
    \/ ReadResourceClassFlavors({"w1"})
    \/ ReadRunningVirtualMachines({"w1"})

SpecVms == Init /\ [][NextVms]_vars

\* q is the integer quotient of n by a divisor between 1 and 7 that is
\* (n % 7) + 1
IsQuotient(q, n) ==
    \E divisor \in 1..7 :
        /\ (n - (divisor - 1)) % 7 = 0
        /\ q * divisor <= n
        /\ n < (q + 1) * divisor

\* a read of running_virtual_machines that computed it and returned
ComputedVms ==
    /\ ret'.op = "read" /\ ret'.arg.prop = "running_virtual_machines"
    /\ ret'.ok /\ ret'.computed

\* C12: running_virtual_machines returns one entry per join row of the
\* resource class, in the same order, whose max_vms is the integer quotient
\* max_vms / ((max_vms % 7) + 1) of the join row's max_vms, with a divisor
\* between 1 and 7, never above the row's max_vms when that is not negative;
\* the entries are copies: the wrappers in resource_class_flavors and the
\* stored rows keep their max_vms.
C12_RunningVmsAreQuotients ==
    [][ComputedVms =>
          LET before == wrap[ret'.slot][1]
              after  == wrap'[ret'.slot][1]
              joins  == after.memo["resource_class_flavors"][1]
              vms    == ret'.val
          IN  /\ db' = db
              /\ before.memo["resource_class_flavors"] = Null =>
                     Plain(joins) = JoinsNow(db, before.id)
              /\ before.memo["resource_class_flavors"] # Null =>
                     joins = before.memo["resource_class_flavors"][1]
              /\ Len(vms) = Len(joins)
              /\ \A i \in 1..Len(vms) :
                     /\ vms[i].id = joins[i].id
                     /\ joins[i].row.max_vms # Null
                     /\ vms[i].max_vms # Null
                     /\ IsQuotient(vms[i].max_vms[1], joins[i].row.max_vms[1])
                     /\ joins[i].row.max_vms[1] >= 0 =>
                            vms[i].max_vms[1] <= joins[i].row.max_vms[1]]_vars

\* running_virtual_machines was computed over join rows with max_vms 20
\* (divisor 7, quotient 2) and -3 (divisor 5, quotient -1)
C12_Witness ==
    /\ ret.op = "read" /\ ret.arg.prop = "running_virtual_machines"
    /\ ret.ok /\ ret.computed
    /\ \E i, j \in 1..Len(ret.val) :
           /\ ret.val[i].row.max_vms = Some(20) /\ ret.val[i].max_vms = Some(2)
           /\ ret.val[j].row.max_vms = Some(-3) /\ ret.val[j].max_vms = Some(-1)

(***************************************************************************)
(* SpecHosts: a view reads the hosts of a resource class while racks move  *)
(* between the classes or are deleted.                                     *)
(***************************************************************************)
ReadHostsCount(slots) ==
    \E s \in slots :
        /\ wrap[s] # Null
        /\ ReadOnWrapper(s, HostsCount(db, wrap[s][1]), "hosts_count")

NextHosts ==
    \/ CallResourceClassGet({"w1"}, {"1", "2"})
    \/ ReadProperty({"w1"}, {"hosts", "racks"})
    \/ ReadHostsCount({"w1"})
    \/ CallRackUpdate({"a"}, RcArgs)
    \/ CallRackDelete({"2"})

SpecHosts == Init /\ [][NextHosts]_vars

\* C13: for every resource class, including one with no racks, hosts
\* returns the concatenation, in rack order, of the hosts of each of its
\* racks (the empty list when it has no racks) and hosts_count the sum of
\* the racks' host counts, without raising.
C13_HostsOfEveryClass ==
    [][(/\ ret'.op = "read" /\ ret'.arg.prop \in {"hosts", "hosts_count"}
        /\ wrap[ret'.slot][1].memo["hosts"] = Null
        /\ wrap[ret'.slot][1].memo["racks"] = Null) =>
           LET rcPk == wrap[ret'.slot][1].id
           IN  /\ ret'.ok
               /\ ret'.arg.prop = "hosts" => ret'.val = HostsNow(db, rcPk)
               /\ ret'.arg.prop = "hosts_count" =>
                      ret'.val = Cardinality({h \in DOMAIN db.host :
                                     /\ db.host[h].rack_id # Null
                                     /\ db.host[h].rack_id[1] \in RacksOf(db, rcPk)})]_vars

(***************************************************************************)
(* SpecFlavorUpdate: flavors are made by Flavor.create and changed by      *)
(* Flavor.update.                                                          *)
(***************************************************************************)
UpdateNames == {"b", "c"}
UpdateValues == {<<2, 1024, 20, 1, 1>>, <<4, 512, 10, 0, 2>>}

CallFlavorUpdate(flavorIds, names, valueLists) ==
    \E id \in flavorIds, name \in names, values \in valueLists :
        Call(FlavorUpdate(db, id, name, values), "Flavor.update",
             [id |-> id, name |-> name, values |-> values])

NextFlavorUpdate ==
    \/ CallFlavorCreate({"a"})
    \/ CallFlavorUpdate(FlavorIds, UpdateNames, UpdateValues)
    \/ CallFlavorDelete({"1"})

SpecFlavorUpdate == Init /\ [][NextFlavorUpdate]_vars

\* the Capacity rows a flavor owns, by primary key
FlavorCaps(d, f) ==
    {c \in DOMAIN d.cap : d.cap[c].content_type = "flavor" /\ d.cap[c].object_id = f}

\* the flavor owns exactly five capacities, which in the order of their
\* keys have the five names and units of Flavor.create
HasTheFive(d, f) ==
    /\ Cardinality(FlavorCaps(d, f)) = 5
    /\ \A i \in 1..5 :
           LET row == d.cap[SortedSeq(FlavorCaps(d, f))[i]]
           IN  /\ row.name = <<"vcpu", "ram", "root_disk", "ephemeral_disk",
                               "swap_disk">>[i]
               /\ row.unit = <<"", "MB", "GB", "GB", "MB">>[i]

\* the values of the five capacities of a flavor, in that order
FiveValues(d, f) == [i \in 1..5 |-> d.cap[SortedSeq(FlavorCaps(d, f))[i]].value]

\* C14: Flavor.create attaches to the new flavor exactly five capacities
\* named vcpu, ram, root_disk, ephemeral_disk, swap_disk with units '', 'MB',
\* 'GB', 'GB', 'MB' and the given values; after any sequence of Flavor.update
\* calls the flavor still owns exactly those five rows (same ids, none added
\* or removed), each with the value of the most recent update, and has the
\* most recent name.
C14_FiveCapacitiesKept ==
    [][/\ \A f \in DOMAIN db'.flavor : HasTheFive(db', f)
       /\ ret'.op = "Flavor.create" =>
              LET f == db.seq.flavor
              IN  /\ ret'.ok
                  /\ DOMAIN db'.flavor = DOMAIN db.flavor \cup {f}
                  /\ db'.flavor[f].name = ret'.arg.name
                  /\ FlavorCaps(db, f) = {}
                  /\ FiveValues(db', f) = ret'.arg.values
       /\ \A f \in DOMAIN db.flavor :
              IF ret'.op = "Flavor.update" /\ ret'.arg.id = Str(f)
              THEN /\ ret'.ok
                   /\ f \in DOMAIN db'.flavor
                   /\ FlavorCaps(db', f) = FlavorCaps(db, f)
                   /\ FiveValues(db', f) = ret'.arg.values
                   /\ db'.flavor[f].name = ret'.arg.name
              ELSE (f \in DOMAIN db'.flavor) =>
                       /\ FlavorCaps(db', f) = FlavorCaps(db, f)
                       /\ FiveValues(db', f) = FiveValues(db, f)
                       /\ db'.flavor[f] = db.flavor[f]]_vars

\* a flavor made by Flavor.create was updated twice, last with the second
\* value list and the name "c", and holds them in its five capacities
C14_Witness ==
    /\ ret.op = "Flavor.update" /\ ret.ok /\ ret.arg.id = "2"
    /\ ret.arg.values = <<4, 512, 10, 0, 2>>
    /\ 2 \in DOMAIN db.flavor
    /\ db.flavor[2].name = "c"
    /\ FlavorCaps(db, 2) = 7..11
    /\ FiveValues(db, 2) = <<4, 512, 10, 0, 2>>

====
